---- MODULE Spec2Model ----
(***************************************************************************)
(* Trotter time-evolution circuit factories of quri-algo                   *)
(* (quri_algo/circuit/time_evolution/trotter_time_evo.py).                 *)
(*                                                                         *)
(* Numbers.  A float64 magnitude is modelled as an exact decimal with      *)
(* FracDigits = 16 fractional digits, held in three limbs                  *)
(*     value = w + h * 10^-8 + l * 10^-16,   0 <= h, l < 10^8              *)
(* so that every intermediate fits TLC's 32-bit integers.  16 digits is    *)
(* the resolution of a float64 near 1; an evolution time that is the       *)
(* float64 product m * time_step appears in the model as a magnitude a few *)
(* units of 10^-16 away from the exact multiple.                           *)
(***************************************************************************)
EXTENDS Integers, Sequences, FiniteSets, TLC

VARIABLES
    arg_time_step,        \* argument time_step of get_evolution_trotter_step
    arg_evolution_time,   \* argument evolution_time of get_evolution_trotter_step
    step_result,      \* what the call returned or raised
    arg_hamiltonian,      \* argument hamiltonian of the synthesis functions
    arg_n_trotter,        \* argument n_trotter
    arg_trotter_order,    \* argument trotter_order
    arg_shift,            \* argument shift of get_shifted_hamiltonian
    synth_result,     \* which function was called and what it returned or raised
    factory,              \* the factory object held by the caller, if any
    ctor,                 \* what the last constructor call did
    call_time,            \* evolution_time of the last factory call
    call_result,          \* what the last factory call returned or raised
    partials,             \* the TrotterPartialTimeEvolutionCircuitFactory objects
    lru_cache,            \* the cache of get_partial_time_evolution_circuit
    synthesized,          \* per argument tuple, how often the body has run
    partial_result,       \* the last request on a partial factory and its result
    hadamard_args,        \* the arguments of construct_hadamard_circuit
    hadamard_result,      \* the circuit the last Hadamard-test call returned
    life_factory,         \* a fixed-step or fixed-interval factory in use
    life_partial,         \* a partial factory in use
    life_cache,           \* the lru_cache while the partial factory is in use
    life_call,            \* the last call on the factory in use and its result
    life_earlier,         \* an earlier call the caller has kept
    life_allocated,       \* how many circuit objects have been created
    agree_args,           \* a Hamiltonian, order, time_step, m and evolution_time
    agree_interval,       \* what the fixed-interval factory returned for them
    agree_step            \* what the fixed-step factory returned for them

stepVars == <<arg_time_step, arg_evolution_time, step_result>>
synthVars == <<arg_hamiltonian, arg_n_trotter, arg_trotter_order, arg_shift, synth_result>>
factoryVars == <<factory, ctor, call_time, call_result>>
cacheVars == <<partials, lru_cache, synthesized, partial_result>>
hadamardVars == <<hadamard_args, hadamard_result>>
lifeVars == <<life_factory, life_partial, life_cache, life_call, life_earlier,
              life_allocated>>
agreeVars == <<agree_args, agree_interval, agree_step>>
vars == <<stepVars, synthVars, factoryVars, cacheVars, hadamardVars, lifeVars,
          agreeVars>>

----------------------------------------------------------------------------
(* Decimal limbs *)

LimbBase == 10000 * 10000

RECURSIVE Pow10(_)
Pow10(k) == IF k = 0 THEN 1 ELSE 10 * Pow10(k - 1)

\* number of fractional decimal digits the model keeps (two limbs of 8)
FracDigits == 8 + 8

Num(w, h, l) == [w |-> w, h |-> h, l |-> l]

Zero == Num(0, 0, 0)

IsIntegral(x) == x.h = 0 /\ x.l = 0

\* carry propagation after an increment of the low limb
Carry(w, h, l) ==
    LET h2 == h + (l \div LimbBase)
    IN  Num(w + (h2 \div LimbBase), h2 % LimbBase, l % LimbBase)

NumLeq(a, b) ==
    \/ a.w < b.w
    \/ a.w = b.w /\ a.h < b.h
    \/ a.w = b.w /\ a.h = b.h /\ a.l <= b.l

\* a - b for a >= b
NumSub(a, b) ==
    LET bl == IF a.l < b.l THEN 1 ELSE 0
        l  == a.l + bl * LimbBase - b.l
        bh == IF a.h - bl < b.h THEN 1 ELSE 0
        h  == a.h - bl + bh * LimbBase - b.h
    IN  Num(a.w - bh - b.w, h, l)

NumAbsDiff(a, b) == IF NumLeq(b, a) THEN NumSub(a, b) ELSE NumSub(b, a)

\* x * n for a small natural n
MulSmall(x, n) ==
    LET l == x.l * n
        h == x.h * n + (l \div LimbBase)
    IN  Num(x.w * n + (h \div LimbBase), h % LimbBase, l % LimbBase)

\* x / d for a small positive integer d, rounded to the nearest multiple of
\* 10^-16 (ties to even), as a float division rounds its last place
DivSmall(x, d) ==
    LET w  == x.w \div d
        t2 == (x.w % d) * LimbBase + x.h
        h  == t2 \div d
        t3 == (t2 % d) * LimbBase + x.l
        l  == t3 \div d
        r  == t3 % d
        up == (2 * r > d) \/ (2 * r = d /\ l % 2 = 1)
    IN  Carry(w, h, IF up THEN l + 1 ELSE l)

----------------------------------------------------------------------------
(* numpy primitives used by get_evolution_trotter_step *)

\* np.round(step, 12): number of decimals kept
Decimals == 12

\* np.isclose defaults: atol = 1e-8 is one unit of the h limb
AtolUnits == 1

\* np.isclose defaults: rtol = 1e-5, so rtol * b is b * 1000 units of the h limb
RtolUnits == 1000

\* np.round(x, Decimals): nearest multiple of 10^-Decimals, ties to even
NpRound(x) ==
    LET unit == Pow10(FracDigits - Decimals)
        q    == x.l \div unit
        r    == x.l % unit
        up   == (2 * r > unit) \/ (2 * r = unit /\ q % 2 = 1)
    IN  Carry(x.w, x.h, (IF up THEN q + 1 ELSE q) * unit)

\* int(x) for x >= 0: truncation toward zero
IntTrunc(x) == x.w

\* np.isclose(a, b) for an integer b >= 0: |a - b| <= atol + rtol * |b|
NpIsClose(a, b) ==
    NumLeq(NumAbsDiff(a, Num(b, 0, 0)), Carry(0, AtolUnits + RtolUnits * b, 0))

\* a signed evolution time: sgn = np.sign, mag = np.abs
Time(sgn, mag) == [sgn |-> sgn, mag |-> mag]

ErrorResult(kind) == [status |-> kind, n |-> 0, sgn |-> 0]

\* get_evolution_trotter_step(time_step, evolution_time)
get_evolution_trotter_step(ts, et) ==
    IF ~(ts > 0) THEN ErrorResult("AssertionError")
    ELSE LET step == DivSmall(et.mag, ts)
         IN  IF ~NpIsClose(NpRound(step), IntTrunc(step))
             THEN ErrorResult("ValueError")
             ELSE [status |-> "ok", n |-> IntTrunc(NpRound(step)), sgn |-> et.sgn]

----------------------------------------------------------------------------
(* Inputs of the step-count inference *)

MaxTimeStep == 2
MaxWhole == 3
LargeWhole == 100000

TimeSteps == (0 - 1) .. MaxTimeStep

\* fractional parts: none, float noise (2e-16), below the rounding tolerance
\* (1e-13), above it (1e-9), a half, and the same distances below the next
\* integer
Offsets ==
    { Zero, Num(0, 0, 2), Num(0, 0, 1000), Num(0, 0, 10000000),
      Num(0, 50000000, 0),
      Num(0, LimbBase - 1, LimbBase - 2),
      Num(0, LimbBase - 1, LimbBase - 1000),
      Num(0, LimbBase - 1, LimbBase - 10000000) }

Wholes == (0 .. MaxWhole) \cup {LargeWhole}

Magnitudes == { Num(k, o.h, o.l) : k \in Wholes, o \in Offsets }

EvolutionTimes ==
    { Time(IF m = Zero THEN 0 ELSE s, m) : s \in {0 - 1, 1}, m \in Magnitudes }

NoResult == ErrorResult("none")

InitStep ==
    /\ arg_time_step \in TimeSteps
    /\ arg_evolution_time \in EvolutionTimes
    /\ step_result = NoResult

IdleStep ==
    /\ arg_time_step = 1
    /\ arg_evolution_time = Time(0, Zero)
    /\ step_result = NoResult

CallGetEvolutionTrotterStep ==
    /\ step_result = NoResult
    /\ step_result' = get_evolution_trotter_step(arg_time_step, arg_evolution_time)
    /\ UNCHANGED <<arg_time_step, arg_evolution_time>>
    /\ UNCHANGED <<synthVars, factoryVars, cacheVars, hadamardVars, lifeVars, agreeVars>>

\* the caller picks the next arguments
NextArguments ==
    /\ step_result # NoResult
    /\ arg_time_step' \in TimeSteps
    /\ arg_evolution_time' \in EvolutionTimes
    /\ step_result' = NoResult
    /\ UNCHANGED <<synthVars, factoryVars, cacheVars, hadamardVars, lifeVars, agreeVars>>

NextStep == CallGetEvolutionTrotterStep \/ NextArguments


----------------------------------------------------------------------------
(* Signed decimals: coefficients and rotation angles *)

Signed(sgn, mag) == [sgn |-> IF mag = Zero THEN 0 ELSE sgn, mag |-> mag]

SInt(i) == Signed(IF i < 0 THEN 0 - 1 ELSE 1, Num(IF i < 0 THEN 0 - i ELSE i, 0, 0))

SNeg(x) == Signed(0 - x.sgn, x.mag)

\* x * k for a small integer k
SMulInt(x, k) ==
    IF k < 0 THEN Signed(0 - x.sgn, MulSmall(x.mag, 0 - k))
    ELSE Signed(x.sgn, MulSmall(x.mag, k))

\* x / d for a small positive integer d
SDivInt(x, d) == Signed(x.sgn, DivSmall(x.mag, d))

NumAdd(a, b) == Carry(a.w + b.w, a.h + b.h, a.l + b.l)

SAdd(x, y) ==
    IF x.sgn = 0 THEN y
    ELSE IF y.sgn = 0 THEN x
    ELSE IF x.sgn = y.sgn THEN Signed(x.sgn, NumAdd(x.mag, y.mag))
    ELSE IF NumLeq(y.mag, x.mag) THEN Signed(x.sgn, NumSub(x.mag, y.mag))
    ELSE Signed(y.sgn, NumSub(y.mag, x.mag))

\* a complex coefficient
Complex(re, im) == [re |-> re, im |-> im]

CAdd(a, b) == Complex(SAdd(a.re, b.re), SAdd(a.im, b.im))

----------------------------------------------------------------------------
(* Operator algebra: Pauli labels and Operators (quri_parts.core.operator)  *)
(* A Pauli label is a set of <<qubit index, Pauli id>> pairs, ids X = 1,   *)
(* Y = 2, Z = 3.  An Operator is a dict from label to coefficient; its     *)
(* items() is the sequence of (label, coefficient) in insertion order.     *)

PAULI_IDENTITY == {}

PauliZ == 3

pauli_label(pairs) == pairs

Item(op, coef) == [op |-> op, coef |-> coef]

\* Operator.add_term: a new label is appended, a known one has its
\* coefficient summed in place
add_term(operator, op, coef) ==
    IF \E i \in 1 .. Len(operator) : operator[i].op = op
    THEN [i \in 1 .. Len(operator) |->
            IF operator[i].op = op
            THEN Item(op, CAdd(operator[i].coef, coef))
            ELSE operator[i]]
    ELSE Append(operator, Item(op, coef))

RECURSIVE ShiftFrom(_, _, _, _)
\* the loop of get_shifted_hamiltonian from item i on, acc the new Operator
ShiftFrom(hamiltonian, shift, i, acc) ==
    IF i > Len(hamiltonian) THEN acc
    ELSE LET op   == hamiltonian[i].op
             coef == hamiltonian[i].coef
         IN  IF op = PAULI_IDENTITY
             THEN ShiftFrom(hamiltonian, shift, i + 1,
                            add_term(acc, PAULI_IDENTITY, coef))
             ELSE ShiftFrom(hamiltonian, shift, i + 1,
                            add_term(acc,
                                     pauli_label({<<p[1] + shift, p[2]>> : p \in op}),
                                     coef))

RECURSIVE ShiftFromNoContinue(_, _, _, _)
\* mutant: the identity branch falls through, so the identity term is added a
\* second time under the label of the empty index list
ShiftFromNoContinue(hamiltonian, shift, i, acc) ==
    IF i > Len(hamiltonian) THEN acc
    ELSE LET op      == hamiltonian[i].op
             coef    == hamiltonian[i].coef
             copied  == IF op = PAULI_IDENTITY
                        THEN add_term(acc, PAULI_IDENTITY, coef) ELSE acc
         IN  ShiftFromNoContinue(hamiltonian, shift, i + 1,
                 add_term(copied,
                          pauli_label({<<p[1] + shift, p[2]>> : p \in op}),
                          coef))

get_shifted_hamiltonian_no_continue(hamiltonian, shift) ==
    ShiftFromNoContinue(hamiltonian, shift, 1, <<>>)

get_shifted_hamiltonian(hamiltonian, shift) ==
    ShiftFrom(hamiltonian, shift, 1, <<>>)

RECURSIVE Reversed(_)
Reversed(seq) ==
    IF seq = <<>> THEN <<>> ELSE Append(Reversed(Tail(seq)), Head(seq))

Outcome(status, value) == [status |-> status, value |-> value]

\* trotter_suzuki_decomposition(op, 1.0, order_k): S_2 for order_k = 1 is every
\* term with half its coefficient, forward then backward; S_2k recurses on
\* order_k - 1 and has no base case below 1.  order_k > 1 needs the
\* irrational factor 1 / (4 - 4^(1/(2k-1))) and is outside the inputs.
trotter_suzuki_decomposition(op, order_k) ==
    IF order_k < 1 THEN Outcome("RecursionError", <<>>)
    ELSE LET half == [i \in 1 .. Len(op) |->
                        Item(op[i].op,
                             Complex(SDivInt(op[i].coef.re, 2),
                                     SDivInt(op[i].coef.im, 2)))]
         IN  Outcome("ok", half \o Reversed(half))

\* mutant: the parity assertion is missing
_get_pairs_without_parity_check(hamiltonian, trotter_order) ==
    IF trotter_order = 1 THEN Outcome("ok", hamiltonian)
    ELSE trotter_suzuki_decomposition(hamiltonian, trotter_order \div 2)

\* _get_trotter_pauli_coefficient_pairs(hamiltonian, trotter_order)
_get_trotter_pauli_coefficient_pairs(hamiltonian, trotter_order) ==
    IF trotter_order = 1 THEN Outcome("ok", hamiltonian)
    ELSE IF trotter_order % 2 # 0 THEN Outcome("AssertionError", <<>>)
    ELSE trotter_suzuki_decomposition(hamiltonian, trotter_order \div 2)

----------------------------------------------------------------------------
(* Circuits (quri_parts.circuit).  A template is a circuit whose gates     *)
(* carry the coefficient of the one parameter t; binding t multiplies it.  *)

Circuit(qubit_count, gates) == [qubit_count |-> qubit_count, gates |-> gates]

\* add_ParametricPauliRotation_gate(indices, ids, {t: coef})
ParametricPauliRotation(op, coef) ==
    [name |-> "ParametricPauliRotation", target |-> op, coef |-> coef]

\* add_ParametricRZ_gate(qubit, {t: coef})
ParametricRZ(qubit, coef) ==
    [name |-> "ParametricRZ", target |-> {<<qubit, PauliZ>>}, coef |-> coef]

\* _add_single_term_for_trotter_time_evolution: the gates it appends
_add_single_term_for_trotter_time_evolution(op, coeff, n_trotter) ==
    IF op = PAULI_IDENTITY THEN <<>>
    ELSE << ParametricPauliRotation(op, SDivInt(SMulInt(coeff.re, 2), n_trotter)) >>

\* mutant: the two rotations of a non-identity term are emitted in the other
\* order
_add_single_term_for_controlled_swapped(op, coeff, n_trotter) ==
    IF op = PAULI_IDENTITY
    THEN << ParametricRZ(0, SNeg(SDivInt(coeff.re, n_trotter))) >>
    ELSE << ParametricPauliRotation(pauli_label(op \cup {<<0, PauliZ>>}),
                                    SNeg(SDivInt(coeff.re, n_trotter))),
            ParametricPauliRotation(op, SDivInt(coeff.re, n_trotter)) >>

\* _add_single_term_for_controlled_time_evolution: the gates it appends
_add_single_term_for_controlled_time_evolution(op, coeff, n_trotter) ==
    IF op = PAULI_IDENTITY
    THEN << ParametricRZ(0, SNeg(SDivInt(coeff.re, n_trotter))) >>
    ELSE << ParametricPauliRotation(op, SDivInt(coeff.re, n_trotter)),
            ParametricPauliRotation(pauli_label(op \cup {<<0, PauliZ>>}),
                                    SNeg(SDivInt(coeff.re, n_trotter))) >>

RECURSIVE PlainPass(_, _, _)
\* one traversal of the pairs: for op, coef in op_coeff_pair
PlainPass(pairs, n_trotter, i) ==
    IF i > Len(pairs) THEN <<>>
    ELSE _add_single_term_for_trotter_time_evolution(
             pairs[i].op, pairs[i].coef, n_trotter)
         \o PlainPass(pairs, n_trotter, i + 1)

RECURSIVE ControlledPass(_, _, _)
ControlledPass(pairs, n_trotter, i) ==
    IF i > Len(pairs) THEN <<>>
    ELSE _add_single_term_for_controlled_time_evolution(
             pairs[i].op, pairs[i].coef, n_trotter)
         \o ControlledPass(pairs, n_trotter, i + 1)

\* mutant: the pairs are a single-use iterator, exhausted by the first pass
TraverseSingleUse(pairs, pass) == IF pass = 1 THEN pairs ELSE <<>>

\* what the pairs' iterable yields on its pass-th traversal: a dict items view
\* (order 1) and a list (even orders) yield every pair on every traversal
Traverse(pairs, pass) == pairs

RECURSIVE PlainPasses(_, _, _)
\* for _ in range(n_trotter): for op, coef in op_coeff_pair: ...
PlainPasses(pairs, n_trotter, pass) ==
    IF pass > n_trotter THEN <<>>
    ELSE PlainPass(Traverse(pairs, pass), n_trotter, 1)
         \o PlainPasses(pairs, n_trotter, pass + 1)

RECURSIVE ControlledPasses(_, _, _)
ControlledPasses(pairs, n_trotter, pass) ==
    IF pass > n_trotter THEN <<>>
    ELSE ControlledPass(Traverse(pairs, pass), n_trotter, 1)
         \o ControlledPasses(pairs, n_trotter, pass + 1)

\* get_trotter_time_evolution_operator(hamiltonian, n_state_qubits, n_trotter,
\* trotter_order)
get_trotter_time_evolution_operator(hamiltonian, n_state_qubits, n_trotter, trotter_order) ==
    LET op_coeff_pair == _get_trotter_pauli_coefficient_pairs(hamiltonian, trotter_order)
    IN  IF op_coeff_pair.status # "ok"
        THEN Outcome(op_coeff_pair.status, <<>>)
        ELSE Outcome("ok",
                     Circuit(n_state_qubits,
                             PlainPasses(op_coeff_pair.value, n_trotter, 1)))

\* get_trotter_controlled_time_evolution_operator(hamiltonian, n_state_qubits,
\* n_trotter, trotter_order)
get_trotter_controlled_time_evolution_operator(hamiltonian, n_state_qubits, n_trotter, trotter_order) ==
    LET hamiltonian_shifted == get_shifted_hamiltonian(hamiltonian, 1)
        op_coeff_pair == _get_trotter_pauli_coefficient_pairs(hamiltonian_shifted,
                                                              trotter_order)
    IN  IF op_coeff_pair.status # "ok"
        THEN Outcome(op_coeff_pair.status, <<>>)
        ELSE Outcome("ok",
                     Circuit(n_state_qubits + 1,
                             ControlledPasses(op_coeff_pair.value, n_trotter, 1)))

\* a bound gate: the parametric gate with its angle coef * t
BoundGate(g, t) ==
    [name   |-> IF g.name = "ParametricRZ" THEN "RZ" ELSE "PauliRotation",
     target |-> g.target,
     angle  |-> SMulInt(g.coef, t)]

\* template.bind_parameters([t]) for an integer-valued t
bind_parameters(template, t) ==
    Circuit(template.qubit_count,
            [i \in 1 .. Len(template.gates) |-> BoundGate(template.gates[i], t)])

\* inverse_circuit: the gates in reverse order, every rotation angle negated
inverse_circuit(circuit) ==
    LET n == Len(circuit.gates)
    IN  Circuit(circuit.qubit_count,
                [i \in 1 .. n |->
                    [circuit.gates[n + 1 - i] EXCEPT !.angle = SNeg(@)]])

----------------------------------------------------------------------------
(* Inputs of the synthesis functions *)

MaxTerms == 2
MaxTrotter == 2
MaxShift == 2
NStateQubits == 2

\* X0, Z1, Y0 X1 and the identity
Labels == { PAULI_IDENTITY, {<<0, 1>>}, {<<1, 3>>}, {<<0, 2>>, <<1, 1>>} }

Coefficients == { Complex(SInt(2), SInt(0)), Complex(SInt(0 - 1), SInt(1)) }

\* Operators of at most maxlen terms: no label twice, no zero coefficient
OperatorsOver(labels, coefs, maxlen) ==
    { h \in UNION { [1 .. k -> { Item(l, c) : l \in labels, c \in coefs }] :
                    k \in 0 .. maxlen } :
        \A i, j \in 1 .. Len(h) : i # j => h[i].op # h[j].op }

Hamiltonians == OperatorsOver(Labels, Coefficients, MaxTerms)

TrotterOrders == {0, 1, 2, 3, 5}

NoSynth == [fn |-> "none", status |-> "none", value |-> <<>>]

Returned(fn, outcome) ==
    [fn |-> fn, status |-> outcome.status, value |-> outcome.value]

InitSynth ==
    /\ arg_hamiltonian \in Hamiltonians
    /\ arg_n_trotter \in 1 .. MaxTrotter
    /\ arg_trotter_order \in TrotterOrders
    /\ arg_shift \in 0 .. MaxShift
    /\ synth_result = NoSynth

IdleSynth ==
    /\ arg_hamiltonian = <<>>
    /\ arg_n_trotter = 1
    /\ arg_trotter_order = 1
    /\ arg_shift = 0
    /\ synth_result = NoSynth

CallGetShiftedHamiltonian ==
    /\ synth_result = NoSynth
    /\ synth_result' =
         Returned("get_shifted_hamiltonian",
                  Outcome("ok", get_shifted_hamiltonian(arg_hamiltonian, arg_shift)))
    /\ UNCHANGED <<arg_hamiltonian, arg_n_trotter, arg_trotter_order, arg_shift>>
    /\ UNCHANGED <<stepVars, factoryVars, cacheVars, hadamardVars, lifeVars, agreeVars>>

CallGetPairs ==
    /\ synth_result = NoSynth
    /\ synth_result' =
         Returned("_get_trotter_pauli_coefficient_pairs",
                  _get_trotter_pauli_coefficient_pairs(arg_hamiltonian, arg_trotter_order))
    /\ UNCHANGED <<arg_hamiltonian, arg_n_trotter, arg_trotter_order, arg_shift>>
    /\ UNCHANGED <<stepVars, factoryVars, cacheVars, hadamardVars, lifeVars, agreeVars>>

CallGetPlainOperator ==
    /\ synth_result = NoSynth
    /\ synth_result' =
         Returned("get_trotter_time_evolution_operator",
                  get_trotter_time_evolution_operator(
                      arg_hamiltonian, NStateQubits, arg_n_trotter, arg_trotter_order))
    /\ UNCHANGED <<arg_hamiltonian, arg_n_trotter, arg_trotter_order, arg_shift>>
    /\ UNCHANGED <<stepVars, factoryVars, cacheVars, hadamardVars, lifeVars, agreeVars>>

CallGetControlledOperator ==
    /\ synth_result = NoSynth
    /\ synth_result' =
         Returned("get_trotter_controlled_time_evolution_operator",
                  get_trotter_controlled_time_evolution_operator(
                      arg_hamiltonian, NStateQubits, arg_n_trotter, arg_trotter_order))
    /\ UNCHANGED <<arg_hamiltonian, arg_n_trotter, arg_trotter_order, arg_shift>>
    /\ UNCHANGED <<stepVars, factoryVars, cacheVars, hadamardVars, lifeVars, agreeVars>>

\* the result is consumed; the same arguments may be used again
DropSynthResult ==
    /\ synth_result # NoSynth
    /\ synth_result' = NoSynth
    /\ UNCHANGED <<arg_hamiltonian, arg_n_trotter, arg_trotter_order, arg_shift>>
    /\ UNCHANGED <<stepVars, factoryVars, cacheVars, hadamardVars, lifeVars, agreeVars>>

NextSynth ==
    \/ CallGetShiftedHamiltonian
    \/ CallGetPairs
    \/ CallGetPlainOperator
    \/ CallGetControlledOperator
    \/ DropSynthResult

----------------------------------------------------------------------------
(* Factories.  encoded_problem is a QubitHamiltonianInput: its               *)
(* qubit_hamiltonian and its n_state_qubit.  No transpiler is supplied, so   *)
(* the apply_transpiler decorator returns the circuit as built.              *)

None == [some |-> FALSE, v |-> 0]

Some(v) == [some |-> TRUE, v |-> v]

NoInner == [cls |-> "none"]

Factory(cls, n_state_qubit, time_step, n_trotter, trotter_order, circuit, inner) ==
    [cls |-> cls, qubit_count |-> n_state_qubit, time_step |-> time_step,
     n_trotter |-> n_trotter, trotter_order |-> trotter_order,
     circuit |-> circuit, inner |-> inner]

NoFactory == Factory("none", 0, None, None, 0, <<>>, NoInner)

\* what a constructor did: the object (status ok) or the error raised, the
\* inner factory constructors it invoked and the template builders invoked
Constructed(status, value, inner_calls, builder_calls) ==
    [status |-> status, value |-> value, inner_calls |-> inner_calls,
     builder_calls |-> builder_calls]

\* FixedStepTrotterTimeEvolutionCircuitFactory.__init__
FixedStepTrotterTimeEvolutionCircuitFactory(hamiltonian, n_state_qubit, n_trotter, trotter_order) ==
    LET built == get_trotter_time_evolution_operator(
                     hamiltonian, n_state_qubit, n_trotter, trotter_order)
    IN  IF built.status # "ok"
        THEN Constructed(built.status, NoFactory, <<>>, 1)
        ELSE Constructed("ok",
                 Factory("FixedStepTrotterTimeEvolutionCircuitFactory",
                         n_state_qubit, None, Some(n_trotter), trotter_order,
                         built.value, NoInner),
                 <<>>, 1)

\* FixedStepTrotterControlledTimeEvolutionCircuitFactory.__init__
FixedStepTrotterControlledTimeEvolutionCircuitFactory(hamiltonian, n_state_qubit, n_trotter, trotter_order) ==
    LET built == get_trotter_controlled_time_evolution_operator(
                     hamiltonian, n_state_qubit, n_trotter, trotter_order)
    IN  IF built.status # "ok"
        THEN Constructed(built.status, NoFactory, <<>>, 1)
        ELSE Constructed("ok",
                 Factory("FixedStepTrotterControlledTimeEvolutionCircuitFactory",
                         n_state_qubit, None, Some(n_trotter), trotter_order,
                         built.value, NoInner),
                 <<>>, 1)

\* FixedIntervalTrotterTimeEvolutionCircuitFactory.__init__
FixedIntervalTrotterTimeEvolutionCircuitFactory(hamiltonian, n_state_qubit, time_step, trotter_order) ==
    LET built == get_trotter_time_evolution_operator(
                     hamiltonian, n_state_qubit, 1, trotter_order)
    IN  IF built.status # "ok"
        THEN Constructed(built.status, NoFactory, <<>>, 1)
        ELSE Constructed("ok",
                 Factory("FixedIntervalTrotterTimeEvolutionCircuitFactory",
                         n_state_qubit, Some(time_step), None, trotter_order,
                         bind_parameters(built.value, time_step), NoInner),
                 <<>>, 1)

\* FixedIntervalTrotterControlledTimeEvolutionCircuitFactory.__init__
FixedIntervalTrotterControlledTimeEvolutionCircuitFactory(hamiltonian, n_state_qubit, time_step, trotter_order) ==
    LET built == get_trotter_controlled_time_evolution_operator(
                     hamiltonian, n_state_qubit, 1, trotter_order)
    IN  IF built.status # "ok"
        THEN Constructed(built.status, NoFactory, <<>>, 1)
        ELSE Constructed("ok",
                 Factory("FixedIntervalTrotterControlledTimeEvolutionCircuitFactory",
                         n_state_qubit, Some(time_step), None, trotter_order,
                         bind_parameters(built.value, time_step), NoInner),
                 <<>>, 1)

\* the facade once its inner factory's constructor has returned or raised
Wrapped(cls, inner_cls, inner, n_state_qubit, time_step, n_trotter, trotter_order) ==
    IF inner.status # "ok"
    THEN Constructed(inner.status, NoFactory, <<inner_cls>>, inner.builder_calls)
    ELSE Constructed("ok",
             Factory(cls, n_state_qubit, time_step, n_trotter, trotter_order,
                     <<>>, inner.value),
             <<inner_cls>>, inner.builder_calls)

\* mutant: the facade does not assert that exactly one of time_step and
\* n_trotter is given
TrotterTimeEvolutionCircuitFactoryUnchecked(hamiltonian, n_state_qubit, time_step, n_trotter, trotter_order) ==
    IF time_step.some
    THEN Wrapped("TrotterTimeEvolutionCircuitFactory",
                 "FixedIntervalTrotterTimeEvolutionCircuitFactory",
                 FixedIntervalTrotterTimeEvolutionCircuitFactory(
                     hamiltonian, n_state_qubit, time_step.v, trotter_order),
                 n_state_qubit, time_step, n_trotter, trotter_order)
    ELSE IF n_trotter.some
    THEN Wrapped("TrotterTimeEvolutionCircuitFactory",
                 "FixedStepTrotterTimeEvolutionCircuitFactory",
                 FixedStepTrotterTimeEvolutionCircuitFactory(
                     hamiltonian, n_state_qubit, n_trotter.v, trotter_order),
                 n_state_qubit, time_step, n_trotter, trotter_order)
    ELSE Constructed("ok",
             Factory("TrotterTimeEvolutionCircuitFactory", n_state_qubit,
                     time_step, n_trotter, trotter_order, <<>>, NoInner),
             <<>>, 0)

\* TrotterTimeEvolutionCircuitFactory.__init__
TrotterTimeEvolutionCircuitFactory(hamiltonian, n_state_qubit, time_step, n_trotter, trotter_order) ==
    IF ~(time_step.some # n_trotter.some)
    THEN Constructed("AssertionError", NoFactory, <<>>, 0)
    ELSE IF time_step.some
    THEN Wrapped("TrotterTimeEvolutionCircuitFactory",
                 "FixedIntervalTrotterTimeEvolutionCircuitFactory",
                 FixedIntervalTrotterTimeEvolutionCircuitFactory(
                     hamiltonian, n_state_qubit, time_step.v, trotter_order),
                 n_state_qubit, time_step, n_trotter, trotter_order)
    ELSE Wrapped("TrotterTimeEvolutionCircuitFactory",
                 "FixedStepTrotterTimeEvolutionCircuitFactory",
                 FixedStepTrotterTimeEvolutionCircuitFactory(
                     hamiltonian, n_state_qubit, n_trotter.v, trotter_order),
                 n_state_qubit, time_step, n_trotter, trotter_order)

\* TrotterControlledTimeEvolutionCircuitFactory.__init__
TrotterControlledTimeEvolutionCircuitFactory(hamiltonian, n_state_qubit, time_step, n_trotter, trotter_order) ==
    IF ~(time_step.some # n_trotter.some)
    THEN Constructed("AssertionError", NoFactory, <<>>, 0)
    ELSE IF time_step.some
    THEN Wrapped("TrotterControlledTimeEvolutionCircuitFactory",
                 "FixedIntervalTrotterControlledTimeEvolutionCircuitFactory",
                 FixedIntervalTrotterControlledTimeEvolutionCircuitFactory(
                     hamiltonian, n_state_qubit, time_step.v, trotter_order),
                 n_state_qubit, time_step, n_trotter, trotter_order)
    ELSE Wrapped("TrotterControlledTimeEvolutionCircuitFactory",
                 "FixedStepTrotterControlledTimeEvolutionCircuitFactory",
                 FixedStepTrotterControlledTimeEvolutionCircuitFactory(
                     hamiltonian, n_state_qubit, n_trotter.v, trotter_order),
                 n_state_qubit, time_step, n_trotter, trotter_order)

FixedStepClasses ==
    { "FixedStepTrotterTimeEvolutionCircuitFactory",
      "FixedStepTrotterControlledTimeEvolutionCircuitFactory" }

FixedIntervalClasses ==
    { "FixedIntervalTrotterTimeEvolutionCircuitFactory",
      "FixedIntervalTrotterControlledTimeEvolutionCircuitFactory" }

FacadeClasses ==
    { "TrotterTimeEvolutionCircuitFactory",
      "TrotterControlledTimeEvolutionCircuitFactory" }

\* an integer-valued time as an integer
TimeAsInt(t) == t.sgn * t.mag.w

RECURSIVE Extended(_, _)
\* for _ in range(n): circuit.extend(unit)
Extended(unit_gates, n) ==
    IF n <= 0 THEN <<>> ELSE Extended(unit_gates, n - 1) \o unit_gates

\* FixedStep...Factory.__call__ (plain and controlled): bind t
FixedStepCall(self, evolution_time) ==
    Outcome("ok", bind_parameters(self.circuit, TimeAsInt(evolution_time)))

\* FixedInterval...Factory.__call__ (plain and controlled, the controlled one
\* on qubit_count + 1 qubits)
FixedIntervalCall(self, evolution_time) ==
    LET inferred == get_evolution_trotter_step(self.time_step.v, evolution_time)
        width    == IF self.cls = "FixedIntervalTrotterControlledTimeEvolutionCircuitFactory"
                    THEN self.qubit_count + 1 ELSE self.qubit_count
        circuit  == Circuit(width, Extended(self.circuit.gates, inferred.n))
    IN  IF inferred.status # "ok" THEN Outcome(inferred.status, <<>>)
        ELSE Outcome("ok", IF inferred.sgn > 0 THEN circuit
                           ELSE inverse_circuit(circuit))

\* the call of a fixed-step or fixed-interval factory
InnerCall(self, evolution_time) ==
    IF self.cls \in FixedStepClasses THEN FixedStepCall(self, evolution_time)
    ELSE FixedIntervalCall(self, evolution_time)

\* Trotter...Factory.__call__: return self._factory(evolution_time)
FacadeCall(self, evolution_time) == InnerCall(self.inner, evolution_time)

----------------------------------------------------------------------------
(* Inputs and actions of the factories *)

MaxRepetitions == 4

FactoryLabels == { PAULI_IDENTITY, {<<0, 1>>}, {<<0, 2>>, <<1, 1>>} }

FactoryHamiltonians ==
    OperatorsOver(FactoryLabels, { Complex(SInt(2), SInt(0)) }, MaxTerms)

FactoryOrders == {0, 1, 2, 3}

OptionalTimeSteps == {None} \cup { Some(t) : t \in TimeSteps }

OptionalTrotters == {None} \cup { Some(n) : n \in 1 .. MaxTrotter }

FactoryTimes == { t \in EvolutionTimes : t.mag.w <= MaxWhole }

\* the last constructor call: the class, its arguments and what it did
CtorCall(cls, time_step, n_trotter, trotter_order, made) ==
    [cls |-> cls, time_step |-> time_step, n_trotter |-> n_trotter,
     trotter_order |-> trotter_order, status |-> made.status,
     inner_calls |-> made.inner_calls, builder_calls |-> made.builder_calls]

NoCtor == CtorCall("none", None, None, 0, Constructed("none", NoFactory, <<>>, 0))

NoCall == Outcome("none", <<>>)

InitFactory ==
    /\ factory = NoFactory
    /\ ctor = NoCtor
    /\ call_time = Time(0, Zero)
    /\ call_result = NoCall

Construct(cls, time_step, n_trotter, trotter_order, made) ==
    /\ ctor = NoCtor
    /\ ctor' = CtorCall(cls, time_step, n_trotter, trotter_order, made)
    /\ factory' = made.value
    /\ UNCHANGED <<call_time, call_result>>

ConstructFixedStep ==
    /\ \E h \in FactoryHamiltonians, n \in 1 .. MaxTrotter, order \in FactoryOrders :
          \/ Construct("FixedStepTrotterTimeEvolutionCircuitFactory",
                       None, Some(n), order,
                       FixedStepTrotterTimeEvolutionCircuitFactory(
                           h, NStateQubits, n, order))
          \/ Construct("FixedStepTrotterControlledTimeEvolutionCircuitFactory",
                       None, Some(n), order,
                       FixedStepTrotterControlledTimeEvolutionCircuitFactory(
                           h, NStateQubits, n, order))
    /\ UNCHANGED <<stepVars, synthVars, cacheVars, hadamardVars, lifeVars, agreeVars>>

ConstructFixedInterval ==
    /\ \E h \in FactoryHamiltonians, ts \in TimeSteps, order \in FactoryOrders :
          \/ Construct("FixedIntervalTrotterTimeEvolutionCircuitFactory",
                       Some(ts), None, order,
                       FixedIntervalTrotterTimeEvolutionCircuitFactory(
                           h, NStateQubits, ts, order))
          \/ Construct("FixedIntervalTrotterControlledTimeEvolutionCircuitFactory",
                       Some(ts), None, order,
                       FixedIntervalTrotterControlledTimeEvolutionCircuitFactory(
                           h, NStateQubits, ts, order))
    /\ UNCHANGED <<stepVars, synthVars, cacheVars, hadamardVars, lifeVars, agreeVars>>

ConstructFacade ==
    /\ \E h \in FactoryHamiltonians, ts \in OptionalTimeSteps,
          n \in OptionalTrotters, order \in FactoryOrders :
          \/ Construct("TrotterTimeEvolutionCircuitFactory", ts, n, order,
                       TrotterTimeEvolutionCircuitFactory(
                           h, NStateQubits, ts, n, order))
          \/ Construct("TrotterControlledTimeEvolutionCircuitFactory", ts, n, order,
                       TrotterControlledTimeEvolutionCircuitFactory(
                           h, NStateQubits, ts, n, order))
    /\ UNCHANGED <<stepVars, synthVars, cacheVars, hadamardVars, lifeVars, agreeVars>>

\* the policy that serves the calls of the current factory
Policy == IF factory.cls \in FacadeClasses THEN factory.inner ELSE factory

\* factory(evolution_time); a fixed-step call binds an integer-valued time, a
\* fixed-interval call is followed up to MaxRepetitions repetitions
CallFactory ==
    /\ factory.cls # "none"
    /\ call_result = NoCall
    /\ \E t \in FactoryTimes :
          /\ Policy.cls \in FixedStepClasses => IsIntegral(t.mag)
          /\ Policy.cls \in FixedIntervalClasses =>
                get_evolution_trotter_step(Policy.time_step.v, t).n <= MaxRepetitions
          /\ call_time' = t
          /\ call_result' = IF factory.cls \in FacadeClasses
                            THEN FacadeCall(factory, t)
                            ELSE InnerCall(factory, t)
    /\ UNCHANGED <<factory, ctor, stepVars, synthVars, cacheVars, hadamardVars, lifeVars, agreeVars>>

\* the caller takes the circuit (or handles the error); the factory stays
TakeCallResult ==
    /\ call_result # NoCall
    /\ call_time' = Time(0, Zero)
    /\ call_result' = NoCall
    /\ UNCHANGED <<factory, ctor, stepVars, synthVars, cacheVars, hadamardVars, lifeVars, agreeVars>>

\* the factory is dropped
DiscardFactory ==
    /\ ctor # NoCtor
    /\ factory' = NoFactory
    /\ ctor' = NoCtor
    /\ call_time' = Time(0, Zero)
    /\ call_result' = NoCall
    /\ UNCHANGED <<stepVars, synthVars, cacheVars, hadamardVars, lifeVars, agreeVars>>

NextFactory ==
    \/ ConstructFixedStep
    \/ ConstructFixedInterval
    \/ ConstructFacade
    \/ CallFactory
    \/ TakeCallResult
    \/ DiscardFactory

----------------------------------------------------------------------------
(* TrotterPartialTimeEvolutionCircuitFactory and the lru_cache of its       *)
(* get_partial_time_evolution_circuit.  The cache belongs to the function,  *)
(* so it is one cache for all instances.  Its key is made from the call's   *)
(* arguments as they were passed: (self, idx0, idx1) for a positional call, *)
(* (self, mark, "idx0", idx0, "idx1", idx1) for a keyword call.  A key is   *)
(* found by hash and then compared by equality.  The class defines __hash__ *)
(* (n_trotter) and no __eq__, so two instances are equal only when they are *)
(* the same object.                                                         *)

Positional == "args"

Keyword == "kwds"

Forms == {Positional, Keyword}

\* functools._make_key(args, kwds, typed): the key of one call
make_key(self, idx0, idx1, form) ==
    [self |-> self, form |-> form, idx0 |-> idx0, idx1 |-> idx1]

\* TrotterPartialTimeEvolutionCircuitFactory.__hash__
PartialHash(instance) == instance.n_trotter

\* hash of a key: built from the hashes of its elements
KeyHash(objects, key) ==
    <<PartialHash(objects[key.self]), key.form, key.idx0, key.idx1>>

\* mutant: instances compare equal whenever their hashes are equal
KeyEqByHash(objects, a, b) ==
    /\ PartialHash(objects[a.self]) = PartialHash(objects[b.self])
    /\ a.form = b.form
    /\ a.idx0 = b.idx0
    /\ a.idx1 = b.idx1

\* equality of two keys: self by object identity, the rest by value
KeyEq(objects, a, b) ==
    /\ a.self = b.self
    /\ a.form = b.form
    /\ a.idx0 = b.idx0
    /\ a.idx1 = b.idx1

\* the cache entries the key finds
CacheHits(objects, cache, key) ==
    { entry \in cache :
        /\ KeyHash(objects, entry.key) = KeyHash(objects, key)
        /\ KeyEq(objects, entry.key, key) }

\* lru_cache(maxsize=None): every computed result is kept
CacheStore(cache, entry) == cache \cup {entry}

\* get_local_hamiltonian_input(idx0, idx1): the terms supported on the qubits
\* idx0 .. idx1 - 1, renumbered from 0, on idx1 - idx0 qubits
get_local_hamiltonian_input(hamiltonian, idx0, idx1) ==
    LET inside == SelectSeq(hamiltonian,
                            LAMBDA item : \A p \in item.op : idx0 <= p[1] /\ p[1] < idx1)
    IN  [qubit_hamiltonian |->
            [i \in 1 .. Len(inside) |->
                Item({ <<p[1] - idx0, p[2]>> : p \in inside[i].op }, inside[i].coef)],
         n_state_qubit |-> idx1 - idx0]

\* the body of get_partial_time_evolution_circuit
PartialBody(self, idx0, idx1) ==
    LET local_hamiltonian_input ==
            get_local_hamiltonian_input(self.encoded_problem, idx0, idx1)
    IN  get_trotter_time_evolution_operator(
            local_hamiltonian_input.qubit_hamiltonian,
            local_hamiltonian_input.n_state_qubit, self.n_trotter, 1).value

\* the cached get_partial_time_evolution_circuit: the template object
\* returned, the cache afterwards, whether the body ran.  A template object
\* is named by the key of the call that created it.
CachedPartial(objects, cache, key) ==
    LET hits == CacheHits(objects, cache, key)
    IN  IF hits # {}
        THEN LET hit == CHOOSE entry \in hits : TRUE
             IN  [obj |-> hit.obj, template |-> hit.template,
                  cache |-> cache, computed |-> FALSE]
        ELSE LET template == PartialBody(objects[key.self], key.idx0, key.idx1)
                 entry    == [key |-> key, obj |-> key, template |-> template]
             IN  [obj |-> entry.obj, template |-> template,
                  cache |-> CacheStore(cache, entry), computed |-> TRUE]

----------------------------------------------------------------------------
(* Inputs and actions of the partial factory *)

Instances == {1, 2}

Ranges == {<<0, 2>>, <<1, 2>>}

\* the key (idx0, idx1) of a request on one instance
Key(self, idx0, idx1) == [self |-> self, idx0 |-> idx0, idx1 |-> idx1]

Keys == { Key(i, r[1], r[2]) : i \in Instances, r \in Ranges }

FirstHamiltonian ==
    << Item({<<0, 1>>}, Complex(SInt(2), SInt(0))),
       Item({<<1, 3>>}, Complex(SInt(2), SInt(0))) >>

SecondHamiltonian ==
    << Item({<<0, 1>>}, Complex(SInt(0 - 1), SInt(1))),
       Item({<<0, 2>>, <<1, 1>>}, Complex(SInt(2), SInt(0))),
       Item(PAULI_IDENTITY, Complex(SInt(2), SInt(0))) >>

PartialHamiltonians == {FirstHamiltonian, SecondHamiltonian}

\* TrotterPartialTimeEvolutionCircuitFactory.__init__ stores its arguments
TrotterPartialTimeEvolutionCircuitFactory(encoded_problem, n_trotter) ==
    [encoded_problem |-> encoded_problem, n_trotter |-> n_trotter]

PartialTimes == {0 - 1, 2}

NoPartial ==
    [fn |-> "none", key |-> Key(0, 0, 0), form |-> Positional,
     obj |-> make_key(0, 0, 0, Positional), value |-> <<>>, computed |-> FALSE]

InitCache ==
    /\ \E h \in PartialHamiltonians, n \in 1 .. MaxTrotter :
          partials =
              [i \in Instances |->
                  IF i = 1
                  THEN TrotterPartialTimeEvolutionCircuitFactory(FirstHamiltonian, 1)
                  ELSE TrotterPartialTimeEvolutionCircuitFactory(h, n)]
    /\ lru_cache = {}
    /\ synthesized = [k \in Keys |-> 0]
    /\ partial_result = NoPartial

IdleCache ==
    /\ partials = <<>>
    /\ lru_cache = {}
    /\ synthesized = <<>>
    /\ partial_result = NoPartial

\* one call of the cached function and what it leaves behind
Request(fn, key, form, t) ==
    LET got == CachedPartial(partials, lru_cache,
                             make_key(key.self, key.idx0, key.idx1, form))
    IN  /\ lru_cache' = got.cache
        /\ synthesized' = IF got.computed
                          THEN [synthesized EXCEPT ![key] = @ + 1]
                          ELSE synthesized
        /\ partial_result' =
              [fn |-> fn, key |-> key, form |-> form, obj |-> got.obj,
               value |-> IF fn = "__call__"
                         THEN bind_parameters(got.template, t)
                         ELSE got.template,
               computed |-> got.computed]

\* instance.get_partial_time_evolution_circuit(idx0, idx1), or the same call
\* with idx0=..., idx1=... passed by keyword
GetPartialTimeEvolutionCircuit ==
    /\ \E key \in Keys, form \in Forms :
          Request("get_partial_time_evolution_circuit", key, form, 0)
    /\ UNCHANGED partials
    /\ UNCHANGED <<stepVars, synthVars, factoryVars, hadamardVars, lifeVars, agreeVars>>

\* instance(idx0, idx1, evolution_time): __call__ passes idx0 and idx1 on
\* positionally and binds the template it gets
CallPartial ==
    /\ \E key \in Keys, t \in PartialTimes :
          Request("__call__", key, Positional, t)
    /\ UNCHANGED partials
    /\ UNCHANGED <<stepVars, synthVars, factoryVars, hadamardVars, lifeVars, agreeVars>>

NextCache == GetPartialTimeEvolutionCircuit \/ CallPartial

----------------------------------------------------------------------------
(* Hadamard test (quri_algo/circuit/hadamard_test.py).  The circuits are    *)
(* concrete: the time-evolution circuit is what a controlled factory        *)
(* returned, qubit 0 being its control qubit.                                *)

NoTarget == 0

\* add_H_gate(qubit)
H(qubit) == [name |-> "H", target |-> {<<qubit, NoTarget>>}, angle |-> SInt(0)]

\* add_Sdag_gate(qubit)
Sdag(qubit) == [name |-> "Sdag", target |-> {<<qubit, NoTarget>>}, angle |-> SInt(0)]

\* mutant: the S-dagger is appended when the real part is asked for
construct_hadamard_circuit_sdag_on_real(time_evolution_circuit, test_real, preprocess_circuit, postprocess_circuit) ==
    Circuit(time_evolution_circuit.qubit_count,
            << H(0) >>
            \o (IF preprocess_circuit.some THEN preprocess_circuit.v.gates ELSE <<>>)
            \o time_evolution_circuit.gates
            \o (IF postprocess_circuit.some THEN postprocess_circuit.v.gates ELSE <<>>)
            \o (IF test_real THEN << Sdag(0) >> ELSE <<>>)
            \o << H(0) >>)

\* construct_hadamard_circuit(time_evolution_circuit, test_real,
\* preprocess_circuit=None, postprocess_circuit=None): a new QuantumCircuit
\* to which the gates are appended in the order of the statements
construct_hadamard_circuit(time_evolution_circuit, test_real, preprocess_circuit, postprocess_circuit) ==
    Circuit(time_evolution_circuit.qubit_count,
            << H(0) >>
            \o (IF preprocess_circuit.some THEN preprocess_circuit.v.gates ELSE <<>>)
            \o time_evolution_circuit.gates
            \o (IF postprocess_circuit.some THEN postprocess_circuit.v.gates ELSE <<>>)
            \o (IF ~test_real THEN << Sdag(0) >> ELSE <<>>)
            \o << H(0) >>)

\* HadamardTestCircuitFactory.__call__: the controlled factory's circuit,
\* wrapped with no pre- or postprocessing
HadamardTestCircuitFactoryCall(test_real, controlled_circuit) ==
    construct_hadamard_circuit(controlled_circuit, test_real, None, None)

----------------------------------------------------------------------------
(* Inputs and actions of the Hadamard test *)

HadamardHamiltonians ==
    { <<>>,
      << Item(PAULI_IDENTITY, Complex(SInt(2), SInt(0))) >>,
      << Item({<<0, 1>>}, Complex(SInt(2), SInt(0))),
         Item({<<1, 3>>}, Complex(SInt(0 - 1), SInt(1))) >> }

HadamardTimes == {1, 0 - 2}

\* what a fixed-step controlled factory with n_trotter 1 and order 1 returns
ControlledCircuit(hamiltonian, t) ==
    bind_parameters(
        get_trotter_controlled_time_evolution_operator(
            hamiltonian, NStateQubits, 1, 1).value, t)

ControlledCircuits ==
    { ControlledCircuit(h, t) : h \in HadamardHamiltonians, t \in HadamardTimes }

\* preparation circuits on the state qubits, no wider than the register
ProcessCircuits ==
    { Circuit(2, << [name |-> "X", target |-> {<<1, NoTarget>>}, angle |-> SInt(0)] >>),
      Circuit(3, << H(1),
                    [name |-> "CNOT", target |-> {<<1, NoTarget>>, <<2, NoTarget>>},
                     angle |-> SInt(0)] >>) }

OptionalProcessCircuits == {None} \cup { Some(c) : c \in ProcessCircuits }

HadamardArgs(time_evolution_circuit, test_real, preprocess_circuit, postprocess_circuit) ==
    [time_evolution_circuit |-> time_evolution_circuit, test_real |-> test_real,
     preprocess_circuit |-> preprocess_circuit,
     postprocess_circuit |-> postprocess_circuit]

NoHadamard == [fn |-> "none", circuit |-> Circuit(0, <<>>)]

InitHadamard ==
    /\ hadamard_args \in
          { HadamardArgs(c, r, pre, post) :
              c \in ControlledCircuits, r \in BOOLEAN,
              pre \in OptionalProcessCircuits, post \in OptionalProcessCircuits }
    /\ hadamard_result = NoHadamard

IdleHadamard ==
    /\ hadamard_args = HadamardArgs(Circuit(0, <<>>), TRUE, None, None)
    /\ hadamard_result = NoHadamard

CallConstructHadamardCircuit ==
    /\ hadamard_result = NoHadamard
    /\ hadamard_result' =
          [fn |-> "construct_hadamard_circuit",
           circuit |-> construct_hadamard_circuit(
                           hadamard_args.time_evolution_circuit,
                           hadamard_args.test_real,
                           hadamard_args.preprocess_circuit,
                           hadamard_args.postprocess_circuit)]
    /\ UNCHANGED hadamard_args
    /\ UNCHANGED <<stepVars, synthVars, factoryVars, cacheVars, lifeVars, agreeVars>>

\* a HadamardTestCircuitFactory holding test_real, called: it wraps the
\* circuit of its controlled factory and takes no pre- or postprocessing
CallHadamardTestCircuitFactory ==
    /\ hadamard_result = NoHadamard
    /\ ~hadamard_args.preprocess_circuit.some
    /\ ~hadamard_args.postprocess_circuit.some
    /\ hadamard_result' =
          [fn |-> "HadamardTestCircuitFactory.__call__",
           circuit |-> HadamardTestCircuitFactoryCall(
                           hadamard_args.test_real,
                           hadamard_args.time_evolution_circuit)]
    /\ UNCHANGED hadamard_args
    /\ UNCHANGED <<stepVars, synthVars, factoryVars, cacheVars, lifeVars, agreeVars>>

\* the result is consumed; the same arguments may be used again
DropHadamardResult ==
    /\ hadamard_result # NoHadamard
    /\ hadamard_result' = NoHadamard
    /\ UNCHANGED hadamard_args
    /\ UNCHANGED <<stepVars, synthVars, factoryVars, cacheVars, lifeVars, agreeVars>>

NextHadamard ==
    \/ CallConstructHadamardCircuit
    \/ CallHadamardTestCircuitFactory
    \/ DropHadamardResult

----------------------------------------------------------------------------
(* A factory in use: one fixed-step, fixed-interval or partial factory is   *)
(* constructed and then called again and again.  Circuit objects are        *)
(* numbered in the order of their creation, so that the circuit a call      *)
(* returns can be told from the stored one and from earlier results.        *)

MaxObjects == 4

\* mutant: the call hands out the circuit object created last
SameObject(allocated) == allocated

\* the circuit object a call creates: bind_parameters (fixed-step, partial),
\* QuantumCircuit(...) or inverse_circuit(...) (fixed-interval)
NewObject(allocated) == allocated + 1

LifeHamiltonians ==
    { << Item(PAULI_IDENTITY, Complex(SInt(2), SInt(0))) >>,
      << Item({<<0, 1>>}, Complex(SInt(2), SInt(0))),
         Item({<<1, 3>>}, Complex(SInt(0 - 1), SInt(1))) >> }

LifeOrders == {1, 2}

\* 1, -2, 2 and 1.5
LifeTimes ==
    { Time(1, Num(1, 0, 0)), Time(0 - 1, Num(2, 0, 0)), Time(1, Num(2, 0, 0)),
      Time(1, Num(1, LimbBase \div 2, 0)) }

LifeRanges == {<<0, 2>>, <<1, 2>>}

\* the arguments of a call: evolution_time, and for a partial factory idx0
\* and idx1 before it
LifeArgs(idx0, idx1, evolution_time) ==
    [idx0 |-> idx0, idx1 |-> idx1, evolution_time |-> evolution_time]

LifeCall(args, status, value, obj) ==
    [args |-> args, status |-> status, value |-> value, obj |-> obj]

NoLifeCall == LifeCall(LifeArgs(0, 0, Time(0, Zero)), "none", <<>>, 0)

\* a call that returned outcome: its circuit is a new object, an error
\* leaves no object
Called(args, outcome) ==
    IF outcome.status = "ok"
    THEN LifeCall(args, "ok", outcome.value, NewObject(life_allocated))
    ELSE LifeCall(args, outcome.status, <<>>, 0)

InitLife ==
    /\ life_factory = NoFactory
    /\ life_partial = <<>>
    /\ life_cache = {}
    /\ life_call = NoLifeCall
    /\ life_earlier = NoLifeCall
    /\ life_allocated = 0

NothingInUse == life_factory = NoFactory /\ life_partial = <<>>

\* a constructor that returned: its template or unit circuit is an object
Install(made) ==
    /\ NothingInUse
    /\ made.status = "ok"
    /\ life_factory' = made.value
    /\ life_allocated' = 1
    /\ UNCHANGED <<life_partial, life_cache, life_call, life_earlier>>

LifeConstructFixedStep ==
    /\ \E h \in LifeHamiltonians, n \in 1 .. MaxTrotter, order \in LifeOrders :
          \/ Install(FixedStepTrotterTimeEvolutionCircuitFactory(
                         h, NStateQubits, n, order))
          \/ Install(FixedStepTrotterControlledTimeEvolutionCircuitFactory(
                         h, NStateQubits, n, order))
    /\ UNCHANGED <<stepVars, synthVars, factoryVars, cacheVars, hadamardVars,
                   agreeVars>>

LifeConstructFixedInterval ==
    /\ \E h \in LifeHamiltonians, ts \in TimeSteps, order \in LifeOrders :
          \/ Install(FixedIntervalTrotterTimeEvolutionCircuitFactory(
                         h, NStateQubits, ts, order))
          \/ Install(FixedIntervalTrotterControlledTimeEvolutionCircuitFactory(
                         h, NStateQubits, ts, order))
    /\ UNCHANGED <<stepVars, synthVars, factoryVars, cacheVars, hadamardVars,
                   agreeVars>>

LifeConstructPartial ==
    /\ NothingInUse
    /\ \E h \in PartialHamiltonians, n \in 1 .. MaxTrotter :
          life_partial' = << TrotterPartialTimeEvolutionCircuitFactory(h, n) >>
    /\ life_cache' = {}
    /\ UNCHANGED <<life_factory, life_call, life_earlier, life_allocated>>
    /\ UNCHANGED <<stepVars, synthVars, factoryVars, cacheVars, hadamardVars,
                   agreeVars>>

\* factory(evolution_time) on the fixed-step or fixed-interval factory
LifeCallFactory ==
    /\ life_factory # NoFactory
    /\ life_allocated < MaxObjects
    /\ \E t \in LifeTimes :
          /\ life_factory.cls \in FixedStepClasses => IsIntegral(t.mag)
          /\ life_call' = Called(LifeArgs(0, 0, t), InnerCall(life_factory, t))
    /\ life_allocated' = IF life_call'.status = "ok" THEN life_call'.obj
                         ELSE life_allocated
    /\ UNCHANGED <<life_factory, life_partial, life_cache, life_earlier>>
    /\ UNCHANGED <<stepVars, synthVars, factoryVars, cacheVars, hadamardVars,
                   agreeVars>>

\* factory(idx0, idx1, evolution_time) on the partial factory: the cached
\* template, created on a miss, bound to the time
LifeCallPartial ==
    /\ life_partial # <<>>
    /\ life_allocated < MaxObjects
    /\ \E r \in LifeRanges, t \in LifeTimes :
          LET got == CachedPartial(life_partial, life_cache,
                                   make_key(1, r[1], r[2], Positional))
          IN  /\ IsIntegral(t.mag)
              /\ life_cache' = got.cache
              /\ life_call' =
                    Called(LifeArgs(r[1], r[2], t),
                           Outcome("ok", bind_parameters(got.template, TimeAsInt(t))))
    /\ life_allocated' = life_call'.obj
    /\ UNCHANGED <<life_factory, life_partial, life_earlier>>
    /\ UNCHANGED <<stepVars, synthVars, factoryVars, cacheVars, hadamardVars,
                   agreeVars>>

\* the caller keeps the last call's result for later
KeepCall ==
    /\ life_call # NoLifeCall
    /\ life_earlier' = life_call
    /\ UNCHANGED <<life_factory, life_partial, life_cache, life_call, life_allocated>>
    /\ UNCHANGED <<stepVars, synthVars, factoryVars, cacheVars, hadamardVars,
                   agreeVars>>

NextLife ==
    \/ LifeConstructFixedStep
    \/ LifeConstructFixedInterval
    \/ LifeConstructPartial
    \/ LifeCallFactory
    \/ LifeCallPartial
    \/ KeepCall

----------------------------------------------------------------------------
(* The two step-count policies on the same arguments: a fixed-interval      *)
(* factory built with time_step and a fixed-step factory built with         *)
(* n_trotter = m, both called with the float m * time_step, which is the    *)
(* exact multiple or a few units of 10^-16 beside it.                       *)

\* how far, in units of 10^-16, the float64 product m * time_step may lie
\* from the exact multiple
FloatNoise == 4

Abs(i) == IF i < 0 THEN 0 - i ELSE i

Sgn(i) == IF i < 0 THEN 0 - 1 ELSE IF i = 0 THEN 0 ELSE 1

\* the integer nearest to a time that is a few 10^-16 beside an integer
NearestWhole(t) == IF t.mag.h = 0 THEN t.mag.w ELSE t.mag.w + 1

\* the time's distance from that integer, in units of 10^-16
NoiseUnits(t) == IF t.mag.h = 0 THEN t.mag.l ELSE t.mag.l - LimbBase

\* x rounded to the nearest integer
RoundWhole(x) ==
    IF 2 * x.h > LimbBase \/ (2 * x.h = LimbBase /\ (x.l > 0 \/ x.w % 2 = 1))
    THEN x.w + 1 ELSE x.w

\* coef * t for such a time, rounded at 10^-16
MulNear(coef, t) ==
    LET units == NoiseUnits(t)
        tail  == RoundWhole(MulSmall(coef.mag, Abs(units)))
        sgn   == coef.sgn * t.sgn
        whole == MulSmall(coef.mag, NearestWhole(t))
        mag   == IF units >= 0 THEN NumAdd(whole, Num(0, 0, tail))
                 ELSE NumSub(whole, Num(0, 0, tail))
    IN  IF sgn = 0 \/ mag = Zero THEN SInt(0) ELSE Signed(sgn, mag)

\* template.bind_parameters([t]) for a time at or beside an integer
bind_parameters_near(template, t) ==
    Circuit(template.qubit_count,
            [i \in 1 .. Len(template.gates) |->
                [BoundGate(template.gates[i], 1)
                    EXCEPT !.angle = MulNear(template.gates[i].coef, t)]])

\* FixedStep...Factory.__call__ (plain and controlled) at such a time
FixedStepCallNear(self, evolution_time) ==
    Outcome("ok", bind_parameters_near(self.circuit, evolution_time))

AgreeNoise == {0 - FloatNoise, 0, FloatNoise}

\* coefficients whose quotients by every m in use are exact, in binary as in
\* decimal, so that no rounding enters through coef / n_trotter
AgreeHamiltonians ==
    { << Item(PAULI_IDENTITY, Complex(SInt(60), SInt(0))) >>,
      << Item({<<0, 1>>}, Complex(SInt(60), SInt(0))),
         Item({<<1, 3>>}, Complex(SInt(0 - 120), SInt(1))) >> }

\* the float m * time_step: the exact product moved by units * 10^-16
ProductTime(m, time_step, units) ==
    LET exact == Num(m * time_step, 0, 0)
    IN  Time(1, IF units >= 0 THEN NumAdd(exact, Num(0, 0, units))
                ELSE NumSub(exact, Num(0, 0, 0 - units)))

AgreeArgs(hamiltonian, trotter_order, time_step, m, units, controlled) ==
    [hamiltonian |-> hamiltonian, trotter_order |-> trotter_order,
     time_step |-> time_step, m |-> m, units |-> units,
     evolution_time |-> ProductTime(m, time_step, units),
     controlled |-> controlled]

NoAgree == Outcome("none", <<>>)

InitAgree ==
    /\ agree_args \in
          { AgreeArgs(h, order, ts, m, units, controlled) :
              h \in AgreeHamiltonians, order \in LifeOrders,
              ts \in 1 .. MaxTimeStep, m \in 1 .. MaxRepetitions,
              units \in AgreeNoise, controlled \in BOOLEAN }
    /\ agree_interval = NoAgree
    /\ agree_step = NoAgree

IdleAgree ==
    /\ agree_args = AgreeArgs(<<>>, 1, 1, 1, 0, FALSE)
    /\ agree_interval = NoAgree
    /\ agree_step = NoAgree

\* FixedInterval...Factory(problem, time_step, order)(evolution_time)
AgreeCallFixedInterval ==
    /\ agree_interval = NoAgree
    /\ LET a    == agree_args
           made == IF a.controlled
                   THEN FixedIntervalTrotterControlledTimeEvolutionCircuitFactory(
                            a.hamiltonian, NStateQubits, a.time_step, a.trotter_order)
                   ELSE FixedIntervalTrotterTimeEvolutionCircuitFactory(
                            a.hamiltonian, NStateQubits, a.time_step, a.trotter_order)
       IN  agree_interval' = FixedIntervalCall(made.value, a.evolution_time)
    /\ UNCHANGED <<agree_args, agree_step>>
    /\ UNCHANGED <<stepVars, synthVars, factoryVars, cacheVars, hadamardVars, lifeVars>>

\* FixedStep...Factory(problem, m, order)(evolution_time)
AgreeCallFixedStep ==
    /\ agree_step = NoAgree
    /\ LET a    == agree_args
           made == IF a.controlled
                   THEN FixedStepTrotterControlledTimeEvolutionCircuitFactory(
                            a.hamiltonian, NStateQubits, a.m, a.trotter_order)
                   ELSE FixedStepTrotterTimeEvolutionCircuitFactory(
                            a.hamiltonian, NStateQubits, a.m, a.trotter_order)
       IN  agree_step' = FixedStepCallNear(made.value, a.evolution_time)
    /\ UNCHANGED <<agree_args, agree_interval>>
    /\ UNCHANGED <<stepVars, synthVars, factoryVars, cacheVars, hadamardVars, lifeVars>>

NextAgree == AgreeCallFixedInterval \/ AgreeCallFixedStep

----------------------------------------------------------------------------
(* Specifications *)

InitStepSpec ==
    InitStep /\ IdleSynth /\ InitFactory /\ IdleCache /\ IdleHadamard /\ InitLife
    /\ IdleAgree

SpecStep == InitStepSpec /\ [][NextStep]_vars

InitSynthSpec ==
    InitSynth /\ IdleStep /\ InitFactory /\ IdleCache /\ IdleHadamard /\ InitLife
    /\ IdleAgree

SpecSynth == InitSynthSpec /\ [][NextSynth]_vars

----------------------------------------------------------------------------
(* Step-count inference: claims C2 and C3 *)

\* the quotient |evolution_time| / time_step of the current arguments
ArgStep == DivSmall(arg_evolution_time.mag, arg_time_step)

\* C2: for time_step > 0, get_evolution_trotter_step raises ValueError exactly
\* when |evolution_time| / time_step rounded to 12 decimals is not an integer,
\* and otherwise returns that integer as the repetition count.
C2_ValueErrorExactlyWhenNotIntegral ==
    (step_result # NoResult /\ arg_time_step > 0) =>
        /\ step_result.status = "ValueError" <=> ~IsIntegral(NpRound(ArgStep))
        /\ IsIntegral(NpRound(ArgStep)) =>
              /\ step_result.status = "ok"
              /\ step_result.n = NpRound(ArgStep).w

\* C3: every returned pair has repetition_count >= 0 and
\* repetition_count * time_step * sign equal to evolution_time within the
\* rounding tolerance 10^-12 (per unit of time_step).
C3_ProductEqualsEvolutionTime ==
    step_result.status = "ok" =>
        /\ step_result.n >= 0
        /\ step_result.sgn = arg_evolution_time.sgn
        /\ NumLeq(NumAbsDiff(Num(step_result.n * arg_time_step, 0, 0),
                             arg_evolution_time.mag),
                  Num(0, 0, arg_time_step * Pow10(FracDigits - Decimals)))

----------------------------------------------------------------------------
(* Synthesis functions: claims C5 to C8 *)

UnsupportedOrder(order) == order = 0 \/ (order > 1 /\ order % 2 = 1)

SupportedOrder(order) == order = 1 \/ (order > 1 /\ order % 2 = 0)

NonIdentity(h) == SelectSeq(h, LAMBDA item : item.op # PAULI_IDENTITY)

\* C6: for Trotter order 1 the plain template is n_trotter complete
\* traversals of the Hamiltonian's terms in enumeration order; an identity term
\* gives no gate and a non-identity term exactly one parametrized Pauli
\* rotation on the term's qubits and axes with coefficient
\* 2 * Re(coefficient) / n_trotter.
C6_PlainTemplateIsNTraversals ==
    (synth_result.fn = "get_trotter_time_evolution_operator"
        /\ arg_trotter_order = 1) =>
        LET terms == NonIdentity(arg_hamiltonian)
            k     == Len(terms)
            gates == synth_result.value.gates
        IN  /\ synth_result.status = "ok"
            /\ synth_result.value.qubit_count = NStateQubits
            /\ Len(gates) = arg_n_trotter * k
            /\ \A pass \in 0 .. arg_n_trotter - 1 : \A j \in 1 .. k :
                  LET g == gates[pass * k + j]
                  IN  /\ g.name = "ParametricPauliRotation"
                      /\ g.target = terms[j].op
                      /\ g.coef = SDivInt(SMulInt(terms[j].coef.re, 2), arg_n_trotter)

C6_Witness ==
    /\ synth_result.fn = "get_trotter_time_evolution_operator"
    /\ arg_trotter_order = 1
    /\ arg_n_trotter = 2
    /\ Len(arg_hamiltonian) = 2
    /\ arg_hamiltonian[1].op = PAULI_IDENTITY
    /\ arg_hamiltonian[2].coef.im # SInt(0)
    /\ Len(synth_result.value.gates) = 2

\* the decomposition order of a Hamiltonian's terms for orders 1 and 2
DecompositionOrder(h, order) ==
    IF order = 1 THEN h
    ELSE LET half == [i \in 1 .. Len(h) |->
                        Item(h[i].op, Complex(SDivInt(h[i].coef.re, 2),
                                              SDivInt(h[i].coef.im, 2)))]
         IN  half \o [i \in 1 .. Len(h) |-> half[Len(h) + 1 - i]]

\* gates a term contributes to the controlled template
Width(item) == IF item.op = PAULI_IDENTITY THEN 1 ELSE 2

RECURSIVE WidthBefore(_, _)
WidthBefore(terms, k) ==
    IF k <= 1 THEN 0 ELSE WidthBefore(terms, k - 1) + Width(terms[k - 1])

\* C7: the controlled template has n_qubits + 1 qubits; per repetition and per
\* term in decomposition order an identity term gives one parametrized RZ on
\* qubit 0 with coefficient -Re(c)/n_trotter, a non-identity term gives a
\* rotation on the term's qubits moved up by one (never qubit 0) with
\* coefficient +Re(c)/n_trotter followed by a rotation on the same qubits plus
\* Z on qubit 0 with coefficient -Re(c)/n_trotter; an identity-only
\* Hamiltonian with n_trotter = 1 binds to one RZ on qubit 0 of angle -c*t.
C7_ControlledTemplateGates ==
    (synth_result.fn = "get_trotter_controlled_time_evolution_operator"
        /\ SupportedOrder(arg_trotter_order)) =>
        LET terms == DecompositionOrder(arg_hamiltonian, arg_trotter_order)
            len   == WidthBefore(terms, Len(terms) + 1)
            gates == synth_result.value.gates
        IN  /\ synth_result.status = "ok"
            /\ synth_result.value.qubit_count = NStateQubits + 1
            /\ Len(gates) = arg_n_trotter * len
            /\ \A pass \in 0 .. arg_n_trotter - 1 : \A k \in 1 .. Len(terms) :
                  LET at    == pass * len + WidthBefore(terms, k)
                      part  == SDivInt(terms[k].coef.re, arg_n_trotter)
                      moved == { <<p[1] + 1, p[2]>> : p \in terms[k].op }
                  IN  IF terms[k].op = PAULI_IDENTITY
                      THEN gates[at + 1] = [name |-> "ParametricRZ",
                                            target |-> {<<0, PauliZ>>},
                                            coef |-> SNeg(part)]
                      ELSE /\ gates[at + 1] = [name |-> "ParametricPauliRotation",
                                               target |-> moved,
                                               coef |-> part]
                           /\ \A p \in gates[at + 1].target : p[1] # 0
                           /\ gates[at + 2] = [name |-> "ParametricPauliRotation",
                                               target |-> moved \cup {<<0, PauliZ>>},
                                               coef |-> SNeg(part)]
            /\ (Len(arg_hamiltonian) = 1 /\ arg_hamiltonian[1].op = PAULI_IDENTITY
                    /\ arg_n_trotter = 1 /\ arg_trotter_order = 1) =>
                  \A t \in (0 - 2) .. 2 :
                      bind_parameters(synth_result.value, t) =
                          Circuit(NStateQubits + 1,
                                  << [name |-> "RZ", target |-> {<<0, PauliZ>>},
                                      angle |-> SNeg(SMulInt(arg_hamiltonian[1].coef.re, t))] >>)

C7_Witness ==
    /\ synth_result.fn = "get_trotter_controlled_time_evolution_operator"
    /\ arg_trotter_order = 2
    /\ arg_n_trotter = 2
    /\ Len(arg_hamiltonian) = 2
    /\ arg_hamiltonian[1].op = PAULI_IDENTITY
    /\ Len(synth_result.value.gates) = 12

C7_WitnessIdentityOnly ==
    /\ synth_result.fn = "get_trotter_controlled_time_evolution_operator"
    /\ arg_trotter_order = 1
    /\ arg_n_trotter = 1
    /\ arg_hamiltonian = << Item(PAULI_IDENTITY, Complex(SInt(2), SInt(0))) >>
    /\ Len(synth_result.value.gates) = 1

\* C8 (result): get_shifted_hamiltonian returns as many terms, with the same
\* coefficients in the same order; a non-identity term has every qubit index
\* raised by the offset and its Pauli ids unchanged, the identity term is
\* copied.
C8_ShiftedTerms ==
    synth_result.fn = "get_shifted_hamiltonian" =>
        LET out == synth_result.value
        IN  /\ synth_result.status = "ok"
            /\ Len(out) = Len(arg_hamiltonian)
            /\ \A i \in 1 .. Len(arg_hamiltonian) :
                  /\ out[i].coef = arg_hamiltonian[i].coef
                  /\ Cardinality(out[i].op) = Cardinality(arg_hamiltonian[i].op)
                  /\ \A p \in arg_hamiltonian[i].op :
                        <<p[1] + arg_shift, p[2]>> \in out[i].op
                  /\ arg_hamiltonian[i].op = PAULI_IDENTITY =>
                        out[i].op = PAULI_IDENTITY

\* C8: the result is as C8_ShiftedTerms says in every state, and the call
\* leaves its input Hamiltonian as it was.
C8_ShiftIsPureRelabelling ==
    /\ []C8_ShiftedTerms
    /\ [][synth_result'.fn = "get_shifted_hamiltonian" =>
            arg_hamiltonian' = arg_hamiltonian]_vars

C8_Witness ==
    /\ synth_result.fn = "get_shifted_hamiltonian"
    /\ arg_shift = 2
    /\ Len(arg_hamiltonian) = 2
    /\ arg_hamiltonian[1].op = PAULI_IDENTITY
    /\ arg_hamiltonian[2].op = {<<0, 2>>, <<1, 1>>}
    /\ synth_result.value[2].op = {<<2, 2>>, <<3, 1>>}

InitFactorySpec ==
    InitFactory /\ IdleStep /\ IdleSynth /\ IdleCache /\ IdleHadamard /\ InitLife
    /\ IdleAgree

SpecFactory == InitFactorySpec /\ [][NextFactory]_vars

InitCacheSpec ==
    InitCache /\ IdleStep /\ IdleSynth /\ InitFactory /\ IdleHadamard /\ InitLife
    /\ IdleAgree

SpecCache == InitCacheSpec /\ [][NextCache]_vars

InitHadamardSpec ==
    InitHadamard /\ IdleStep /\ IdleSynth /\ InitFactory /\ IdleCache /\ InitLife
    /\ IdleAgree

SpecHadamard == InitHadamardSpec /\ [][NextHadamard]_vars

InitLifeSpec ==
    InitLife /\ IdleStep /\ IdleSynth /\ InitFactory /\ IdleCache /\ IdleHadamard
    /\ IdleAgree

SpecLife == InitLifeSpec /\ [][NextLife]_vars

InitAgreeSpec ==
    InitAgree /\ IdleStep /\ IdleSynth /\ InitFactory /\ IdleCache /\ IdleHadamard
    /\ InitLife

SpecAgree == InitAgreeSpec /\ [][NextAgree]_vars

----------------------------------------------------------------------------
(* Factories: claims C1 and C4 *)

\* the evolution time of the last call is m * time_step up to float rounding
CalledWithMultiple(m) ==
    /\ call_time.sgn = Sgn(m)
    /\ NumLeq(NumAbsDiff(call_time.mag, Num(Abs(m) * factory.time_step.v, 0, 0)),
              Num(0, 0, FloatNoise))

\* m copies of the unit circuit's gates
Copies(unit_gates, m) ==
    [i \in 1 .. m * Len(unit_gates) |-> unit_gates[((i - 1) % Len(unit_gates)) + 1]]

\* the inverse of m copies: gates backward, angles negated
InverseCopies(unit_gates, m) ==
    [i \in 1 .. m * Len(unit_gates) |->
        [unit_gates[Len(unit_gates) - ((i - 1) % Len(unit_gates))]
            EXCEPT !.angle = SNeg(@)]]

\* C1: a fixed-interval factory (plain or controlled) with time_step > 0,
\* called with evolution_time = m * time_step, returns m copies of its unit
\* circuit for m >= 0 and the inverse of |m| copies for m < 0, on n_qubits
\* qubits (plain) or n_qubits + 1 (controlled).
C1_MultipleGivesCopiesOfUnitCircuit ==
    (factory.cls \in FixedIntervalClasses /\ factory.time_step.v > 0
        /\ call_result # NoCall) =>
        \A m \in (0 - MaxRepetitions) .. MaxRepetitions :
            CalledWithMultiple(m) =>
                /\ call_result.status = "ok"
                /\ call_result.value.qubit_count =
                      IF factory.cls = "FixedIntervalTrotterTimeEvolutionCircuitFactory"
                      THEN NStateQubits ELSE NStateQubits + 1
                /\ call_result.value.gates =
                      IF m >= 0 THEN Copies(factory.circuit.gates, m)
                      ELSE InverseCopies(factory.circuit.gates, 0 - m)

ExactlyOneGiven == ctor.time_step.some # ctor.n_trotter.some

\* the inner class the facade must build for its arguments
ExpectedInner ==
    IF ctor.cls = "TrotterTimeEvolutionCircuitFactory"
    THEN IF ctor.time_step.some
         THEN "FixedIntervalTrotterTimeEvolutionCircuitFactory"
         ELSE "FixedStepTrotterTimeEvolutionCircuitFactory"
    ELSE IF ctor.time_step.some
         THEN "FixedIntervalTrotterControlledTimeEvolutionCircuitFactory"
         ELSE "FixedStepTrotterControlledTimeEvolutionCircuitFactory"

\* C4: a facade given both time_step and n_trotter, or neither, fails at
\* construction before any inner factory or template is built; given exactly
\* one it builds exactly one inner factory, fixed-interval for time_step and
\* fixed-step for n_trotter, and every call is answered by that inner factory.
C4_FacadeTakesExactlyOnePolicy ==
    ctor.cls \in FacadeClasses =>
        /\ ~ExactlyOneGiven =>
              /\ ctor.status = "AssertionError"
              /\ ctor.inner_calls = <<>>
              /\ ctor.builder_calls = 0
              /\ factory = NoFactory
        /\ ExactlyOneGiven =>
              /\ ctor.inner_calls = <<ExpectedInner>>
              /\ ctor.builder_calls = 1
              /\ ctor.status = "ok" <=> SupportedOrder(ctor.trotter_order)
              /\ ctor.status = "ok" =>
                    /\ factory.cls = ctor.cls
                    /\ factory.inner.cls = ExpectedInner
                    /\ factory.inner.time_step = ctor.time_step
                    /\ factory.inner.n_trotter = ctor.n_trotter
                    /\ call_result # NoCall =>
                          call_result = InnerCall(factory.inner, call_time)

C4_Witness ==
    /\ ctor.cls = "TrotterControlledTimeEvolutionCircuitFactory"
    /\ ctor.time_step.some
    /\ ctor.n_trotter.some
    /\ ctor.status = "AssertionError"

C4_WitnessForwarded ==
    /\ ctor.cls = "TrotterTimeEvolutionCircuitFactory"
    /\ ctor.n_trotter = Some(2)
    /\ ~ctor.time_step.some
    /\ call_result.status = "ok"
    /\ Len(call_result.value.gates) = 4

----------------------------------------------------------------------------
(* Partial factory: claims C9 and C10 *)

Requested == partial_result.fn # "none"

\* the cache entries created by requests for the key (idx0, idx1) on self
EntriesFor(cache, key) ==
    { entry \in cache : Key(entry.key.self, entry.key.idx0, entry.key.idx1) = key }

\* the result of the last request is the template of its own key
OwnTemplate ==
    LET key == partial_result.key
        own == PartialBody(partials[key.self], key.idx0, key.idx1)
    IN  /\ Key(partial_result.obj.self, partial_result.obj.idx0,
               partial_result.obj.idx1) = key
        /\ partial_result.fn = "get_partial_time_evolution_circuit"
              => partial_result.value = own
        /\ partial_result.fn = "__call__"
              => \E t \in PartialTimes :
                    partial_result.value = bind_parameters(own, t)

\* a request for a key never requested before runs the body; a request for a
\* key requested before returns the object cached for it and runs nothing
OncePerKey ==
    \A key \in Keys :
        partial_result'.fn # "none" /\ partial_result'.key = key
        => IF EntriesFor(lru_cache, key) = {}
           THEN /\ partial_result'.computed
                /\ synthesized'[key] = 1
           ELSE /\ ~partial_result'.computed
                /\ \A entry \in EntriesFor(lru_cache, key) :
                      partial_result'.obj = entry.obj
                /\ lru_cache' = lru_cache
                /\ synthesized' = synthesized

\* C9 (state): no key (idx0, idx1) of an instance has been synthesized more
\* than once, and the last request got the template of its own key.
C9_SynthesizedAtMostOnce ==
    /\ \A key \in Keys : synthesized[key] <= 1
    /\ Requested => OwnTemplate

\* C9: on one instance, whatever get_partial_time_evolution_circuit and
\* __call__ requests were made, the template of a key (idx0, idx1) is
\* synthesized at most once: the first request for the key builds it, every
\* later request for the key returns that same cached object without running
\* the body again, and no request returns a template cached under another key.
C9_TemplateSynthesizedOncePerKey ==
    /\ []C9_SynthesizedAtMostOnce
    /\ [][OncePerKey]_vars

\* the part of C9 the code keeps: requests that pass idx0 and idx1 the same
\* way (as all __call__ requests do) share one cached object per key
SameFormOncePerKey ==
    /\ \A entry \in lru_cache : entry.obj = entry.key
    /\ \A key \in Keys : synthesized[key] = Cardinality(EntriesFor(lru_cache, key))
    /\ Requested =>
          /\ partial_result.obj =
                make_key(partial_result.key.self, partial_result.key.idx0,
                         partial_result.key.idx1, partial_result.form)
          /\ OwnTemplate

\* a key synthesized twice: once for each way of passing idx0 and idx1
SynthesizedTwice ==
    \E key \in Keys :
        /\ synthesized[key] = 2
        /\ Cardinality(EntriesFor(lru_cache, key)) = 2

\* the other instance has the same n_trotter and has cached the same key,
\* passed the same way
CachedByEqualInstance(cache, key, form) ==
    { entry \in cache :
        /\ entry.key.self # key.self
        /\ partials[entry.key.self].n_trotter = partials[key.self].n_trotter
        /\ entry.key.idx0 = key.idx0
        /\ entry.key.idx1 = key.idx1
        /\ entry.key.form = form }

\* C10 as stated: a request for key (idx0, idx1) on an instance, made when
\* another instance with equal n_trotter has already cached that key, is
\* served the other instance's cached template and synthesizes nothing.
C10_EqualTrotterInstancesShare ==
    [][ \A entry \in CachedByEqualInstance(lru_cache, partial_result'.key,
                                            partial_result'.form) :
            partial_result'.fn # "none"
            => /\ partial_result'.obj = entry.obj
               /\ ~partial_result'.computed ]_vars

\* C10, amended: equal n_trotter makes two instances hash alike and no more.
\* The cache key holds the instance, compared by identity, so every cache
\* entry and every result is a template built by and for the requesting
\* instance from its own Hamiltonian; a request is never served an object
\* another instance cached, whatever the instances' n_trotter.
C10_InstancesNeverShare ==
    /\ \A entry \in lru_cache :
          /\ entry.obj.self = entry.key.self
          /\ entry.template =
                PartialBody(partials[entry.key.self], entry.key.idx0, entry.key.idx1)
    /\ Requested =>
          /\ partial_result.obj.self = partial_result.key.self
          /\ OwnTemplate

\* both instances have n_trotter 1 and different Hamiltonians; the second
\* asked for a key the first had cached, ran the body and got a template of
\* its own that differs from the first's
C10_Witness ==
    /\ partials[1].n_trotter = partials[2].n_trotter
    /\ partials[1].encoded_problem # partials[2].encoded_problem
    /\ Requested
    /\ partial_result.key.self = 2
    /\ partial_result.fn = "get_partial_time_evolution_circuit"
    /\ partial_result.computed
    /\ \E entry \in CachedByEqualInstance(lru_cache, partial_result.key,
                                          partial_result.form) :
          /\ entry.obj # partial_result.obj
          /\ entry.template # partial_result.value

----------------------------------------------------------------------------
(* Hadamard test: claim C11 *)

\* how many gates of the sequence have the name
CountGates(gates, name) ==
    Cardinality({ i \in 1 .. Len(gates) : gates[i].name = name })

GatesOf(optional_circuit) ==
    IF optional_circuit.some THEN optional_circuit.v.gates ELSE <<>>

\* C11 (result): the returned circuit, read off position by position
C11_HadamardSandwich ==
    hadamard_result.fn # "none" =>
        LET inner == hadamard_args.time_evolution_circuit.gates
            given == hadamard_result.fn = "construct_hadamard_circuit"
            pre   == IF given THEN GatesOf(hadamard_args.preprocess_circuit) ELSE <<>>
            post  == IF given THEN GatesOf(hadamard_args.postprocess_circuit) ELSE <<>>
            sdag  == IF hadamard_args.test_real THEN 0 ELSE 1
            gates == hadamard_result.circuit.gates
            n     == Len(gates)
            a     == 1 + Len(pre)
            b     == a + Len(inner)
            c     == b + Len(post)
        IN  /\ hadamard_result.circuit.qubit_count
                  = hadamard_args.time_evolution_circuit.qubit_count
            /\ n = c + sdag + 1
            /\ gates[1] = H(0)
            /\ \A i \in 1 .. Len(pre) : gates[1 + i] = pre[i]
            /\ \A i \in 1 .. Len(inner) : gates[a + i] = inner[i]
            /\ \A i \in 1 .. Len(post) : gates[b + i] = post[i]
            /\ ~hadamard_args.test_real => gates[c + 1] = Sdag(0)
            /\ gates[n] = H(0)
            /\ CountGates(gates, "H")
                  = 2 + CountGates(pre, "H") + CountGates(inner, "H")
                      + CountGates(post, "H")
            /\ CountGates(gates, "Sdag")
                  = sdag + CountGates(pre, "Sdag") + CountGates(inner, "Sdag")
                         + CountGates(post, "Sdag")

\* C11: construct_hadamard_circuit (and the factory that calls it) returns a
\* circuit of the inner circuit's qubit count whose gates are exactly H on
\* qubit 0, pre if given, the inner circuit, post if given, one S-dagger on
\* qubit 0 iff test_real is false, H on qubit 0; the wrapper adds exactly two
\* H and at most one S-dagger; the inner, pre and post circuits passed in are
\* the same after the call as before.
C11_HadamardCircuit ==
    /\ []C11_HadamardSandwich
    /\ [][hadamard_result'.fn # "none" => hadamard_args' = hadamard_args]_vars

\* the imaginary part was asked for with both optional circuits given around
\* a non-empty inner circuit, and the wrapper has returned
C11_Witness ==
    /\ hadamard_result.fn = "construct_hadamard_circuit"
    /\ ~hadamard_args.test_real
    /\ hadamard_args.preprocess_circuit.some
    /\ hadamard_args.postprocess_circuit.some
    /\ Len(hadamard_args.time_evolution_circuit.gates) = 4
    /\ Len(hadamard_result.circuit.gates)
          = 7 + Len(hadamard_args.preprocess_circuit.v.gates)
              + Len(hadamard_args.postprocess_circuit.v.gates)

\* the factory's call with test_real true: two H around the inner circuit
C11_WitnessFactory ==
    /\ hadamard_result.fn = "HadamardTestCircuitFactory.__call__"
    /\ hadamard_args.test_real
    /\ Len(hadamard_result.circuit.gates)
          = 2 + Len(hadamard_args.time_evolution_circuit.gates)

----------------------------------------------------------------------------
(* Factories: claim C12 *)

\* the last constructor call was given a time_step that is not positive
ConstructedWithBadTimeStep ==
    /\ ctor.cls \in FixedIntervalClasses \cup FacadeClasses
    /\ ctor.time_step.some
    /\ ~ctor.n_trotter.some
    /\ ctor.time_step.v <= 0

\* C12: constructing a fixed-interval factory (plain, controlled, or through
\* a facade given time_step) with time_step <= 0 fails at construction time
\* with a precondition error: no factory holding time_step <= 0 exists and no
\* unit circuit is built for it.
C12_TimeStepValidatedAtConstruction ==
    ConstructedWithBadTimeStep =>
        /\ ctor.status = "AssertionError"
        /\ factory = NoFactory
        /\ ctor.builder_calls = 0

\* what the code does instead: the factory is constructed with its unit
\* circuit, and the precondition fails at the first call
BadTimeStepFailsAtCall ==
    ConstructedWithBadTimeStep /\ ctor.status = "ok" /\ call_result # NoCall
    => call_result.status = "AssertionError"

----------------------------------------------------------------------------
(* A factory in use: claim C13 *)

ConcreteGates == {"RZ", "PauliRotation"}

\* a circuit with no free parameter: every gate is a bound gate with an angle
IsConcrete(circuit) ==
    \A i \in 1 .. Len(circuit.gates) : circuit.gates[i].name \in ConcreteGates

\* C13 (state): a call that succeeded returned a concrete circuit, a call
\* that failed returned nothing, and a call with the arguments of a kept
\* earlier call returned what the earlier call returned
C13_CallResults ==
    /\ life_call.status = "ok" =>
          /\ IsConcrete(life_call.value)
          /\ life_call.obj > 0
    /\ life_call.status \notin {"ok", "none"} =>
          /\ life_call.value = <<>>
          /\ life_call.obj = 0
    /\ (life_call # NoLifeCall /\ life_earlier # NoLifeCall
          /\ life_call.args = life_earlier.args) =>
          /\ life_call.status = life_earlier.status
          /\ life_call.value = life_earlier.value

\* C13 (step): a call leaves the factory, its stored template or unit
\* circuit and every cached template as they were, and a circuit it returns
\* is an object created by that call: not the stored one, not the one of the
\* call before, not the one of the kept earlier call
C13_CallStep ==
    (~NothingInUse /\ life_call' # life_call) =>
        /\ life_factory' = life_factory
        /\ life_partial' = life_partial
        /\ \A entry \in life_cache : entry \in life_cache'
        /\ life_call'.status = "ok" =>
              /\ life_call'.obj > life_allocated
              /\ life_call'.obj # life_call.obj
              /\ life_call'.obj # life_earlier.obj

C13_WitnessPartial ==
    /\ life_partial # <<>>
    /\ life_call.status = "ok"
    /\ life_call.args = life_earlier.args
    /\ life_call.obj > life_earlier.obj
    /\ Cardinality(life_cache) = 2

\* a failing call after a kept successful one
C13_WitnessFailing ==
    /\ life_call.status = "ValueError"
    /\ life_earlier.status = "ok"

----------------------------------------------------------------------------
(* The two policies on the same arguments: claim C14 *)

BothCalled == agree_interval # NoAgree /\ agree_step # NoAgree

\* C14: for a supported order, time_step > 0 and m >= 1, the fixed-interval
\* factory built with time_step and the fixed-step factory built with
\* n_trotter = m, both called with evolution_time = m * time_step, return
\* circuits with the same gate sequence: same gates, same qubits, same order,
\* same rotation angles; likewise the controlled variants.
C14_PoliciesAgreeOnMultiples ==
    BothCalled =>
        /\ agree_interval.status = "ok"
        /\ agree_step.status = "ok"
        /\ agree_interval.value.gates = agree_step.value.gates

\* the product is the exact multiple: the two circuits are the same
AgreeOnExactProduct ==
    (BothCalled /\ agree_args.units = 0) =>
        /\ agree_interval.status = "ok"
        /\ agree_interval.value = agree_step.value

\* the product is the exact multiple or above it: the fixed-interval call
\* succeeds with m repetitions
AcceptedAtOrAboveMultiple ==
    (agree_interval # NoAgree /\ agree_args.units >= 0) =>
        /\ agree_interval.status = "ok"
        /\ Len(agree_interval.value.gates) % agree_args.m = 0

\* the product is below the exact multiple: the fixed-interval call raises
RejectedBelowMultiple ==
    (agree_interval # NoAgree /\ agree_args.units < 0) =>
        agree_interval.status = "ValueError"

\* where both calls succeed the circuits have the same gates on the same
\* qubits in the same order, and every pair of angles differs by less than
\* 10^-12
AgreeUpToRounding ==
    (BothCalled /\ agree_interval.status = "ok") =>
        LET a == agree_interval.value.gates
            b == agree_step.value.gates
        IN  /\ Len(a) = Len(b)
            /\ agree_interval.value.qubit_count = agree_step.value.qubit_count
            /\ \A i \in 1 .. Len(a) :
                  /\ a[i].name = b[i].name
                  /\ a[i].target = b[i].target
                  /\ a[i].angle.sgn = b[i].angle.sgn
                  /\ NumLeq(NumAbsDiff(a[i].angle.mag, b[i].angle.mag),
                            Num(0, 0, 10000))

====
